---- MODULE Spec2Model ----
(***************************************************************************)
(* markdown-db: the incremental index (src/index.rs) over documents that   *)
(* collections enumerate (src/markdown/collection.rs, src/obsidian.rs).    *)
(*                                                                         *)
(* Text is a sequence of one-character strings.  The store is the three    *)
(* tables of Index::create_schema; the connection's last_insert_rowid is   *)
(* part of the state because refresh_ reads it.                            *)
(***************************************************************************)
EXTENDS Integers, Sequences, FiniteSets, TLC

\* The wall clock stops here; every refresh takes one tick.
MaxClock == 3

\* index.rs: const SCHEMA_VERSION
SCHEMA_VERSION == 3

\* Option<T>: None, bound as SQL NULL, and Some(x)
None == <<>>
Some(x) == <<x>>
IsSome(opt) == opt # <<>>
Unwrap(opt) == opt[1]

-----------------------------------------------------------------------------
(* Text *)

RECURSIVE Join(_, _)
\* Vec<String>::join(sep)
Join(strs, sep) ==
    IF strs = <<>> THEN <<>>
    ELSE IF Len(strs) = 1 THEN strs[1]
    ELSE strs[1] \o sep \o Join(Tail(strs), sep)

RECURSIVE SplitOn(_, _, _)
\* str::split(' '): the pieces between separators, empty pieces kept.
\* cur is the piece being read.
SplitOn(str, sep, cur) ==
    IF str = <<>> THEN <<cur>>
    ELSE IF Head(str) = sep THEN <<cur>> \o SplitOn(Tail(str), sep, <<>>)
    ELSE SplitOn(Tail(str), sep, Append(cur, Head(str)))

\* unicode61 case folding
Fold(c) ==
    CASE c = "A" -> "a"
      [] c = "B" -> "b"
      [] c = "S" -> "s"
      [] OTHER -> c

\* unicode61 token characters: alphanumerics, and tokenchars '-#'
IsTokenChar(c) == Fold(c) \in {"a", "b", "s", "1", "2", "-", "#"}

\* The porter wrapper of FTS5 on the letters a, b, s: tokens shorter than
\* three characters pass through, and the only rule that applies is step 1a,
\* which drops a final s that does not follow an s.
PorterStem(tok) ==
    IF Len(tok) >= 3 /\ tok[Len(tok)] = "s" /\ tok[Len(tok) - 1] # "s"
    THEN SubSeq(tok, 1, Len(tok) - 1)
    ELSE tok

RECURSIVE RawTokens(_, _)
\* unicode61: maximal runs of token characters, case folded
RawTokens(str, cur) ==
    IF str = <<>> THEN (IF cur = <<>> THEN <<>> ELSE <<cur>>)
    ELSE IF IsTokenChar(Head(str))
         THEN RawTokens(Tail(str), Append(cur, Fold(Head(str))))
         ELSE (IF cur = <<>> THEN <<>> ELSE <<cur>>) \o RawTokens(Tail(str), <<>>)

RECURSIVE StemAll(_)
\* The porter tokenizer stems each token its parent tokenizer finds
StemAll(raw) ==
    IF raw = <<>> THEN <<>> ELSE <<PorterStem(Head(raw))>> \o StemAll(Tail(raw))

\* tokenize = "porter unicode61 remove_diacritics 1 tokenchars '-#'"
Tokenize(str) == StemAll(RawTokens(str, <<>>))

IsPrefix(p, t) == Len(p) <= Len(t) /\ SubSeq(t, 1, Len(p)) = p

-----------------------------------------------------------------------------
(* Markdown: trees, links and front matter *)

RECURSIVE IndexOf(_, _)
\* str::find(c): the position of the first c, 0 when there is none
IndexOf(str, c) ==
    IF str = <<>> THEN 0
    ELSE IF Head(str) = c THEN 1
    ELSE LET rest == IndexOf(Tail(str), c) IN IF rest = 0 THEN 0 ELSE rest + 1

\* str::splitn(2, c): the piece before the first c and the piece after it,
\* or the whole string
splitn2(str, c) ==
    IF IndexOf(str, c) = 0 THEN <<str>>
    ELSE <<SubSeq(str, 1, IndexOf(str, c) - 1), SubSeq(str, IndexOf(str, c) + 1, Len(str))>>

RECURSIVE trim_start(_)
trim_start(str) ==
    IF str # <<>> /\ Head(str) \in {" ", "\n"} THEN trim_start(Tail(str)) ELSE str

RECURSIVE trim_end(_)
trim_end(str) ==
    IF str # <<>> /\ str[Len(str)] \in {" ", "\n"}
    THEN trim_end(SubSeq(str, 1, Len(str) - 1)) ELSE str

\* str::trim
trim(str) == trim_end(trim_start(str))

\* const MARKER: the url the broken-link callback gives an unresolved
\* reference (the link emoji and "!!")
MARKER == <<"@", "!", "!">>

\* "obsidian://open?path="
OpenPath ==
    <<"o", "b", "s", "i", "d", "i", "a", "n", ":", "/", "/",
      "o", "p", "e", "n", "?", "p", "a", "t", "h", "=">>

\* NodeValue::Text, NodeValue::SoftBreak and NodeValue::Link with its children
Text(literal) == [value |-> "Text", literal |-> literal]
SoftBreak == [value |-> "SoftBreak"]
Link(url, title_, children) ==
    [value |-> "Link", url |-> url, title |-> title_, children |-> children]

RECURSIVE node_text(_)
\* Node::text over the nodes of a tree in document order: the literals of
\* the text nodes, those under a link too; a soft break adds nothing
node_text(nodes) ==
    IF nodes = <<>> THEN <<>>
    ELSE (CASE Head(nodes).value = "Text" -> Head(nodes).literal
            [] Head(nodes).value = "Link" -> node_text(Head(nodes).children)
            [] OTHER -> <<>>)
         \o node_text(Tail(nodes))

RECURSIVE node_links(_)
\* Node::links: Link::from(text, url, title) for every link node
node_links(nodes) ==
    IF nodes = <<>> THEN <<>>
    ELSE (IF Head(nodes).value = "Link"
          THEN << [text |-> node_text(Head(nodes).children),
                   url |-> Head(nodes).url, title |-> Head(nodes).title] >>
          ELSE <<>>)
         \o node_links(Tail(nodes))

\* Url::parse succeeds on a url with a scheme: letters up to a colon.  A
\* relative reference has no base and fails.
url_parses(url) ==
    /\ IndexOf(url, ":") > 1
    /\ \A i \in 1..(IndexOf(url, ":") - 1) :
          url[i] \notin {"/", "?", "#", "=", "&", " ", "|", "[", "]", "@", "!"}

\* Url::query: what stands between the first "?" and the fragment
url_query(url) ==
    LET from == IndexOf(url, "?")
        rest == SubSeq(url, from + 1, Len(url))
        upto == IndexOf(rest, "#")
    IN  IF from = 0 THEN None
        ELSE Some(IF upto = 0 THEN rest ELSE SubSeq(rest, 1, upto - 1))

RECURSIVE query_get(_, _)
\* url.query_pairs().collect::<HashMap<_, _>>().get(key): the value of the
\* last pair with this key
query_get(pairs, key) ==
    IF pairs = <<>> THEN None
    ELSE LET pair == splitn2(pairs[Len(pairs)], "=")
         IN  IF pairs[Len(pairs)] # <<>> /\ pair[1] = key
             THEN Some(IF Len(pair) > 1 THEN pair[2] ELSE <<>>)
             ELSE query_get(SubSeq(pairs, 1, Len(pairs) - 1), key)

\* The (key, value) that splitn(2, '=') finds
key_value(str) ==
    IF Len(splitn2(str, "=")) > 1 THEN Some(splitn2(str, "=")) ELSE None

\* Link::meta
meta(link) ==
    IF url_parses(link.url)
    THEN LET query == url_query(link.url)
             key == IF IsSome(query)
                    THEN query_get(SplitOn(Unwrap(query), "&", <<>>), <<"p", "a", "t", "h">>)
                    ELSE None
         IN  IF IsSome(key) THEN key_value(Unwrap(key)) ELSE None
    ELSE key_value(link.url)

\* link.meta().is_some() && link.meta().unwrap().0 == "type"
is_type_link(link) ==
    IsSome(meta(link)) /\ Unwrap(meta(link))[1] = <<"t", "y", "p", "e">>

RECURSIVE trim_all(_)
\* text.split('|').map(|s| s.trim())
trim_all(parts) ==
    IF parts = <<>> THEN <<>> ELSE <<trim(Head(parts))>> \o trim_all(Tail(parts))

RECURSIVE replace_texts(_, _)
\* node.children().for_each: every text child takes parts.remove(0), which
\* panics once parts is empty
replace_texts(children, parts) ==
    IF children = <<>> THEN [failed |-> "no", children |-> <<>>]
    ELSE IF Head(children).value # "Text"
    THEN LET rest == replace_texts(Tail(children), parts)
         IN  [rest EXCEPT !.children = <<Head(children)>> \o rest.children]
    ELSE IF parts = <<>> THEN [failed |-> "panic", children |-> children]
    ELSE LET rest == replace_texts(Tail(children), Tail(parts))
         IN  [rest EXCEPT !.children = <<Text(Head(parts))>> \o rest.children]

\* if let Some(91) = previous_text.last(): the previous sibling of the node
\* at i is a text that ends with "["
after_bracket(nodes, i) ==
    /\ i > 1
    /\ nodes[i - 1].value = "Text" /\ nodes[i - 1].literal # <<>>
    /\ nodes[i - 1].literal[Len(nodes[i - 1].literal)] = "["

\* if let Some(93) = next_text.first(): the next sibling of the node at i is
\* a text that starts with "]"
before_bracket(nodes, i) ==
    /\ i < Len(nodes)
    /\ nodes[i + 1].value = "Text" /\ nodes[i + 1].literal # <<>>
    /\ Head(nodes[i + 1].literal) = "]"

\* A parse that takes the bracket before the link whatever follows it
pop_previous(nodes, i) ==
    IF after_bracket(nodes, i)
    THEN IF before_bracket(nodes, i)
         THEN [nodes EXCEPT ![i - 1].literal = SubSeq(@, 1, Len(@) - 1),
                            ![i + 1].literal = Tail(@)]
         ELSE [nodes EXCEPT ![i - 1].literal = SubSeq(@, 1, Len(@) - 1)]
    ELSE nodes

\* previous_text.pop(); next_text.remove(0): under both conditions
pop_brackets(nodes, i) ==
    IF after_bracket(nodes, i) /\ before_bracket(nodes, i)
    THEN [nodes EXCEPT ![i - 1].literal = SubSeq(@, 1, Len(@) - 1),
                       ![i + 1].literal = Tail(@)]
    ELSE nodes

\* The body of the loop of Obsidian::parse for the marked link at position
\* i: the brackets around it are taken from its neighbours, its url is set
\* from the first part of its text and its text from the second
rewrite_link(nodes, i) ==
    LET popped == pop_brackets(nodes, i)
        parts == trim_all(SplitOn(node_text(nodes[i].children), "|", <<>>))
        replaced ==
            IF Tail(parts) # <<>> THEN replace_texts(nodes[i].children, Tail(parts))
            ELSE [failed |-> "no", children |-> nodes[i].children]
    IN  [failed |-> replaced.failed,
         nodes |-> [popped EXCEPT
                      ![i] = Link(OpenPath \o Head(parts), <<>>, replaced.children)]]

RECURSIVE rewrite_from(_, _)
\* for node in links: the link nodes whose url is MARKER, in document order
rewrite_from(nodes, i) ==
    IF i > Len(nodes) THEN [failed |-> "no", nodes |-> nodes]
    ELSE IF nodes[i].value = "Link" /\ nodes[i].url = MARKER
    THEN LET done == rewrite_link(nodes, i)
         IN  IF done.failed # "no" THEN done ELSE rewrite_from(done.nodes, i + 1)
    ELSE rewrite_from(nodes, i + 1)

\* Obsidian::parse: comrak's tree of the source, every unresolved
\* reference in it a link to MARKER, with its marked links rewritten
parse(tree) == rewrite_from(tree, 1)

\* A YAML node as serde_yaml hands it to a visitor: a key that is missing,
\* a null, a string scalar, or a sequence of scalars in flow or block style
Absent == [kind |-> "absent"]
Null == [kind |-> "null"]
Str(value) == [kind |-> "str", value |-> value]
Flow(items) == [kind |-> "flow", items |-> items]
Block(items) == [kind |-> "block", items |-> items]

\* value.replace(',', " ")
replace_commas(str) == [i \in 1..Len(str) |-> IF str[i] = "," THEN " " ELSE str[i]]

\* MaybeVecOfStrings::visit_str: the pieces between commas and spaces that
\* are not empty
visit_str(value) ==
    Some(SelectSeq(SplitOn(replace_commas(value), " ", <<>>), LAMBDA r : r # <<>>))

\* MaybeVecOfStrings::visit_seq: every element of the sequence
visit_seq(items) == Some(items)

\* FrontMatter::maybe_vec_of_strings: deserialize_any with the visitor; a
\* missing key is the serde default, and a node the visitor has no method
\* for is an error, which becomes None
maybe_vec_of_strings(node) ==
    CASE node.kind = "str" -> visit_str(node.value)
      [] node.kind \in {"flow", "block"} -> visit_seq(node.items)
      [] OTHER -> None

\* Option<String> from a YAML node
option_string(node) == IF node.kind = "str" THEN Some(node.value) ELSE None

\* FrontMatter::from: serde_yaml::from_str(source).expect(...), which fails
\* on a title or type that is a sequence
FrontMatter(yaml) ==
    IF yaml.title.kind \in {"flow", "block"} \/ yaml.type.kind \in {"flow", "block"}
    THEN [failed |-> "panic", front_matter |-> None]
    ELSE [failed |-> "no",
          front_matter |-> Some([title |-> option_string(yaml.title),
                                 doc_type |-> option_string(yaml.type),
                                 tags |-> maybe_vec_of_strings(yaml.tags)])]

\* Document::init over a source [title, header, tree]: root is the parsed
\* tree, without the front matter block that comrak found; front_matter is
\* that block, read.  The content is what the accessors read from the two.
init(source) ==
    LET root == parse(source.tree)
        header == IF IsSome(source.header) THEN FrontMatter(Unwrap(source.header))
                  ELSE [failed |-> "no", front_matter |-> None]
    IN  [failed |-> IF root.failed # "no" THEN root.failed ELSE header.failed,
         root |-> root.nodes,
         content |-> [front_matter |-> header.front_matter,
                      text |-> node_text(root.nodes),
                      links |-> node_links(root.nodes)]]

\* Obsidian::document(source): a Document whose cells root and
\* front_matter are empty
document(source) ==
    [source |-> source, failed |-> "no", root |-> None, content |-> None]

\* A Document that has been initialised, as its accessors see it: over a
\* source that is a string (no title) or a path (its file stem), without
\* timestamps
accessed(doc) ==
    [uri |-> "data", source |-> [title |-> doc.source.title,
                                 content |-> Unwrap(doc.content),
                                 readable |-> TRUE,
                                 modified |-> None,
                                 created |-> None]]

\* The trees comrak makes of a source, every unresolved reference [label] a
\* link to MARKER with the label as its title:
\*   ""  "ab"  "[[W]]"  "b [[ W | A ]] a"  "[f](h:f)"  "h:s"  "[W]"
\*   "[[type=p]]"  "[[type=p|A]]"  "[f](h:f) [[type=p]] [[type=b]]"
\*   "[f](type=b)"  "[[W|A" line break "b]]"  "[[W] b"  "a [W]]"
Trees ==
    { <<>>,
      << Text(<<"a", "b">>) >>,
      << Text(<<"[">>), Link(MARKER, <<"W">>, << Text(<<"W">>) >>), Text(<<"]">>) >>,
      << Text(<<"b", " ", "[">>),
         Link(MARKER, <<" ", "W", " ", "|", " ", "A", " ">>,
              << Text(<<" ", "W", " ", "|", " ", "A", " ">>) >>),
         Text(<<"]", " ", "a">>) >>,
      << Link(<<"h", ":", "f">>, <<>>, << Text(<<"f">>) >>) >>,
      << Link(<<"h", ":", "s">>, <<>>, << Text(<<"h", ":", "s">>) >>) >>,
      << Link(MARKER, <<"W">>, << Text(<<"W">>) >>) >>,
      << Text(<<"[">>),
         Link(MARKER, <<"t", "y", "p", "e", "=", "p">>,
              << Text(<<"t", "y", "p", "e", "=", "p">>) >>),
         Text(<<"]">>) >>,
      << Text(<<"[">>),
         Link(MARKER, <<"t", "y", "p", "e", "=", "p", "|", "A">>,
              << Text(<<"t", "y", "p", "e", "=", "p", "|", "A">>) >>),
         Text(<<"]">>) >>,
      << Link(<<"h", ":", "f">>, <<>>, << Text(<<"f">>) >>),
         Text(<<" ", "[">>),
         Link(MARKER, <<"t", "y", "p", "e", "=", "p">>,
              << Text(<<"t", "y", "p", "e", "=", "p">>) >>),
         Text(<<"]", " ", "[">>),
         Link(MARKER, <<"t", "y", "p", "e", "=", "b">>,
              << Text(<<"t", "y", "p", "e", "=", "b">>) >>),
         Text(<<"]">>) >>,
      << Link(<<"t", "y", "p", "e", "=", "b">>, <<>>, << Text(<<"f">>) >>) >>,
      << Text(<<"[">>),
         Link(MARKER, <<"W", "|", "A", " ", "b">>,
              << Text(<<"W", "|", "A">>), SoftBreak, Text(<<"b">>) >>),
         Text(<<"]">>) >>,
      << Text(<<"[">>), Link(MARKER, <<"W">>, << Text(<<"W">>) >>), Text(<<" ", "b">>) >>,
      << Text(<<"a", " ">>), Link(MARKER, <<"W">>, << Text(<<"W">>) >>), Text(<<"]">>) >> }

\* The values of the tags key
TagNodes ==
    { Absent, Null, Str(<<>>), Str(<<",", " ">>),
      Str(<<"a", ",", " ", "b">>), Str(<<"a", ",", ",", "b", " ", " ">>),
      Flow(<<>>), Flow(<< <<"a">>, <<"b">> >>), Block(<< <<"a">>, <<"b">> >>),
      Block(<< <<>>, <<"a">> >>), Flow(<< <<"a", " ", "b">> >>) }

\* The front matter blocks: mappings with the keys title, type and tags
Headers ==
    { [title |-> t, type |-> y, tags |-> g] :
        t \in {Absent, Null, Str(<<"T">>), Flow(<< <<"T">> >>)},
        y \in {Absent, Str(<<"s">>)},
        g \in TagNodes }

\* The sources: a string or a path (Source::title), with or without a front
\* matter block, and the tree of what follows it
Sources ==
    [title : {None, Some(<<"1">>)},
     header : {None} \cup { Some(h) : h \in Headers },
     tree : Trees]

\* The source "", of Document::default
Empty == [title |-> None, header |-> None, tree |-> <<>>]

-----------------------------------------------------------------------------
(* Sources, documents and collections *)

\* The files a collection can hold; a uri is the file's url.
Uris == {"u1", "u2"}

\* PathBuf::title: the file stem
file_stem(uri_) == IF uri_ = "u1" THEN <<"1">> ELSE <<"2">>

\* What a file can hold, as Document::init leaves it: the front matter
\* (absent, or its title, type and tags) and the text of the remaining tree.
\* "abs sa", without front matter
Plain == [front_matter |-> None, text |-> <<"a", "b", "s", " ", "s", "a">>,
          links |-> <<>>]
\* "bab", under the front matter  title: Abb  type: s  tags: [sb, .bs]
Tagged ==
    [front_matter |-> Some([title |-> Some(<<"A", "b", "b">>),
                            doc_type |-> Some(<<"s">>),
                            tags |-> Some(<< <<"s", "b">>, <<".", "b", "s">> >>)]),
     text |-> <<"b", "a", "b">>,
     links |-> <<>>]

Contents == {Plain, Tagged}

\* Index.collections: a directory, and a second collection nested in it
\* that yields u2 again.
collections == << Uris, {"u2"} >>

VARIABLES
    fs,           \* the files: uri -> [content, readable, modified, created]
    now,          \* the clock: Utc::now() and the files' timestamps
    documents,    \* table documents
    word_index,   \* table word_index, each row with its FTS5 rowid
    application,  \* table application: Some(version), None without the table
    rowid,        \* the connection's last_insert_rowid()
    last,         \* how the last refresh ended, "changed" once files changed after it
    paths,        \* uri -> what the last committed refresh did with it
    before,       \* the tables, and last, as the last refresh found them, and
                  \* documents as its loops left it (seen)
    parsed,       \* a Document outside the index: its source, and what
                  \* Document::init made of it
    ensured       \* what the calls of ensure_schema_version on the connection
                  \* found and returned, in their order

vars ==
    <<fs, now, documents, word_index, application, rowid, last, paths, before, parsed,
      ensured>>

\* Document::modified / created / uri
modified(doc) == doc.source.modified
created(doc) == doc.source.created
uri(doc) == doc.uri

\* Document::front_matter
front_matter(doc) == doc.source.content.front_matter

\* Document::title_from_frontmatter
title_from_frontmatter(doc) ==
    IF IsSome(front_matter(doc)) THEN Unwrap(front_matter(doc)).title ELSE None

\* Document::title_from_source: Source::title
title_from_source(doc) == doc.source.title

\* A title that prefers the source to the front matter
title_from_source_first(doc) ==
    IF IsSome(title_from_source(doc)) THEN title_from_source(doc)
    ELSE title_from_frontmatter(doc)

\* Document::title: title_from_frontmatter().or(title_from_source())
title(doc) ==
    IF IsSome(title_from_frontmatter(doc)) THEN title_from_frontmatter(doc)
    ELSE title_from_source(doc)

\* Document::links: the links of the tree, in document order
links(doc) == doc.source.content.links

\* Document::type_from_link: the value of the first link whose meta key is
\* "type"
type_from_link(doc) ==
    LET type_links == SelectSeq(links(doc), is_type_link)
    IN  IF type_links # <<>> THEN Some(Unwrap(meta(Head(type_links)))[2]) ELSE None

\* Document::doc_type
doc_type(doc) ==
    IF IsSome(front_matter(doc)) THEN Unwrap(front_matter(doc)).doc_type
    ELSE type_from_link(doc)

\* Document::text
text(doc) == doc.source.content.text

\* Document::markdown: format_commonmark of a tree that is one paragraph
markdown(doc) == IF text(doc) = <<>> THEN <<>> ELSE text(doc) \o <<"\n">>

\* A Document over the file at uri
Document(uri_) ==
    [uri |-> uri_, source |-> [title |-> Some(file_stem(uri_))] @@ fs[uri_]]

RECURSIVE Orders(_)
\* WalkDir yields the entries of a directory in no promised order
Orders(set) ==
    IF set = {} THEN { <<>> }
    ELSE UNION { { <<x>> \o rest : rest \in Orders(set \ {x}) } : x \in set }

RECURSIVE Enumerations(_)
\* for collection in collections { for document in &collection.documents() }
Enumerations(colls) ==
    IF colls = <<>> THEN { <<>> }
    ELSE LET present == Head(colls) \cap DOMAIN fs
         IN  { first \o rest : first \in Orders(present), rest \in Enumerations(Tail(colls)) }

-----------------------------------------------------------------------------
(* The store *)

Max(set) == CHOOSE x \in set : \A y \in set : y <= x

\* The rowid SQLite gives a row inserted without one: one more than the
\* largest in the table (documents.id INTEGER PRIMARY KEY, the FTS5 rowid).
NextRowid(rowids) == IF rowids = {} THEN 1 ELSE Max(rowids) + 1

\* SELECT COUNT(*) FROM documents
size == Cardinality(documents)

\* Index::schema_version: the stored version, 0 when there is none
schema_version == IF IsSome(application) THEN Unwrap(application) ELSE 0

\* UPDATE documents SET last_seen_at = ?1 WHERE uri = ?2 AND modified >= ?3
\* The rows it changes, and the table after it.
unmodified_rows(docs, uri_, modified_) ==
    { r \in docs : r.uri = uri_ /\ r.modified >= modified_ }

update_unmodified_document(docs, timestamp, uri_, modified_) ==
    { IF r \in unmodified_rows(docs, uri_, modified_)
      THEN [r EXCEPT !.last_seen_at = timestamp] ELSE r : r \in docs }

\* A conflict clause that leaves last_seen_at as it was
on_conflict_keep(row, excluded) == [row EXCEPT !.uri = excluded.uri]

\* ON CONFLICT(uri) DO UPDATE SET uri = excluded.uri,
\*                                last_seen_at = excluded.last_seen_at
on_conflict_update(row, excluded) ==
    [row EXCEPT !.uri = excluded.uri, !.last_seen_at = excluded.last_seen_at]

\* VALUES (?1, ..., ?7) as insert_into_documents.execute binds them; the row
\* that ON CONFLICT calls excluded
values(doc, timestamp) ==
    [uri |-> uri(doc),
     title |-> Unwrap(title(doc)),
     type |-> doc_type(doc),
     markdown |-> markdown(doc),
     created |-> Unwrap(created(doc)),
     modified |-> Unwrap(modified(doc)),
     last_seen_at |-> timestamp]

\* The statement with its values bound: a row with the uri of excluded is
\* updated and last_insert_rowid() stays; otherwise the row is inserted and
\* last_insert_rowid() is its id.
insert_or_update(st, excluded) ==
    LET id == NextRowid({ r.id : r \in st.documents })
    IN  IF \E r \in st.documents : r.uri = excluded.uri
        THEN [st EXCEPT !.documents =
                 { IF r.uri = excluded.uri THEN on_conflict_update(r, excluded)
                   ELSE r : r \in st.documents }]
        ELSE [st EXCEPT !.documents = st.documents \cup { [id |-> id] @@ excluded },
                        !.rowid = id]

\* An insert into a table whose uri column is not UNIQUE, so that no
\* conflict arises
insert_without_conflict(st, doc, timestamp) ==
    IF ~IsSome(title(doc)) \/ ~IsSome(created(doc)) \/ ~IsSome(modified(doc))
    THEN [st EXCEPT !.failed = "error"]
    ELSE LET id == NextRowid({ r.id : r \in st.documents })
         IN  [st EXCEPT !.documents = st.documents \cup
                             { [id |-> id] @@ values(doc, timestamp) },
                        !.rowid = id]

\* INSERT INTO documents (uri, title, type, markdown, created, modified,
\* last_seen_at) ... ON CONFLICT(uri) DO UPDATE ...
\* st is the transaction's view [documents, word_index, rowid, failed].
\* A NULL in a NOT NULL column fails the statement.
insert_into_documents(st, doc, timestamp) ==
    IF ~IsSome(title(doc)) \/ ~IsSome(created(doc)) \/ ~IsSome(modified(doc))
    THEN [st EXCEPT !.failed = "error"]
    ELSE insert_or_update(st, values(doc, timestamp))

\* DELETE FROM word_index WHERE document_id = ?1
delete_from_word_index(rows, id) == { w \in rows : w.document_id # id }

\* What FTS5 keeps of a row: the indexed columns, and the tokens it finds
\* in each of them when the row is inserted
fts5_row(title_, text_) ==
    [title |-> title_, text |-> text_,
     tokens |-> [title |-> Tokenize(title_), text |-> Tokenize(text_)]]

\* INSERT INTO word_index (document_id, title, text) VALUES (?1, ?2, ?3)
\* The row takes the next FTS5 rowid, which becomes last_insert_rowid().
insert_into_word_index(st, id, title_, text_) ==
    LET new == NextRowid({ w.rowid : w \in st.word_index })
    IN  [st EXCEPT !.word_index = st.word_index \cup
                       { [rowid |-> new, document_id |-> id] @@ fts5_row(title_, text_) },
                   !.rowid = new]

\* front_matter.tags().map(|f| f.iter().map(|tag| format!("#{tag}")).join(" "))
tags_text(doc) ==
    IF IsSome(front_matter(doc)) /\ IsSome(Unwrap(front_matter(doc)).tags)
    THEN LET tags == Unwrap(Unwrap(front_matter(doc)).tags)
         IN  Join([i \in 1..Len(tags) |-> <<"#">> \o tags[i]], <<" ">>)
    ELSE <<>>

\* format!("{} {} {}", &document.title().unwrap_or(""), document.text(), tags)
word_text(doc) ==
    (IF IsSome(title(doc)) THEN Unwrap(title(doc)) ELSE <<>>)
        \o <<" ">> \o text(doc) \o <<" ">> \o tags_text(doc)

\* let id = select_last_insert_rowid...; delete_from_word_index.execute((id,));
\* insert_into_word_index.execute((id, title, text)), on the transaction as
\* insert_into_documents left it (the ? operator ends the body on its error)
replace_word_index(inserted, doc) ==
    LET id == inserted.rowid
    IN  IF inserted.failed # "no" THEN inserted
        ELSE insert_into_word_index(
                 [inserted EXCEPT
                     !.word_index = delete_from_word_index(inserted.word_index, id)],
                 id, Unwrap(title(doc)), word_text(doc))

\* The statements of the loop body's first branch: the row is upserted, and
\* the word_index row of the id that last_insert_rowid() reports is replaced.
upsert_statements(st, doc, timestamp) ==
    replace_word_index(insert_into_documents(st, doc, timestamp), doc)

\* A loop body that passes over a document it cannot read
upsert_or_skip(st, doc, timestamp) ==
    IF ~doc.source.readable THEN st ELSE upsert_statements(st, doc, timestamp)

\* The loop body's first branch: its arguments read and parse the document
\* (Source::read and FrontMatter::from panic on failure), then the
\* statements run.
upsert_document(st, doc, timestamp) ==
    IF ~doc.source.readable
    THEN [st EXCEPT !.failed = "panic"]
    ELSE upsert_statements(st, doc, timestamp)

\* The loop body of refresh_ for one document
refresh_document(st, doc, timestamp) ==
    IF ~IsSome(modified(doc))
       \/ Cardinality(unmodified_rows(st.documents, uri(doc), Unwrap(modified(doc)))) # 1
    THEN upsert_document(st, doc, timestamp)
    ELSE [st EXCEPT !.documents =
             update_unmodified_document(st.documents, timestamp, uri(doc),
                                        Unwrap(modified(doc)))]

RECURSIVE refresh_loop(_, _, _)
\* The two nested loops of refresh_ over the enumerated uris; the first
\* failure ends them (the ? operator, or the panic).
refresh_loop(st, uris, timestamp) ==
    IF uris = <<>> \/ st.failed # "no" THEN st
    ELSE refresh_loop(refresh_document(st, Document(Head(uris)), timestamp),
                      Tail(uris), timestamp)

\* A refresh that keeps the rows it has not seen
delete_no_documents(docs, timestamp) == docs

\* DELETE FROM documents WHERE last_seen_at < ?1
delete_from_documents(docs, timestamp) == { r \in docs : ~(r.last_seen_at < timestamp) }

\* A refresh that leaves every word_index row in place
delete_no_orphans(rows, docs) == rows

\* DELETE FROM word_index WHERE NOT EXISTS
\*   (SELECT 1 FROM documents WHERE documents.id = word_index.document_id)
delete_orphans(rows, docs) ==
    { w \in rows : \E r \in docs : r.id = w.document_id }

\* self.connection.transaction(): the tables and last_insert_rowid() as the
\* transaction finds them
transaction ==
    [documents |-> documents, word_index |-> word_index, rowid |-> rowid, failed |-> "no"]

\* The two statements after the loops: the rows not seen in this cycle are
\* deleted, then the word_index rows that no row of documents owns
delete_unseen(looped, timestamp) ==
    LET kept == delete_from_documents(looped.documents, timestamp)
    IN  IF looped.failed # "no" THEN looped
        ELSE [looped EXCEPT !.documents = kept,
                            !.word_index = delete_orphans(looped.word_index, kept)]

\* Index::refresh_ over one enumeration, from the tables as they are
refresh_(uris, timestamp) ==
    delete_unseen(refresh_loop(transaction, uris, timestamp), timestamp)

-----------------------------------------------------------------------------
(* Search *)

\* Entry::new(row.get(0), row.get(1), row.get(2), row.get(3)) over
\* SELECT uri, documents.title, markdown, type
build_entry(row) ==
    [url |-> row.uri, title |-> row.title, markdown |-> row.markdown,
     doc_type |-> row.type]

\* query.split(' '): one part per piece, the empty pieces too
query_parts(query) == SplitOn(query, " ", <<>>)

RECURSIVE fts5_phrases(_)
\* The phrases FTS5 reads in "p1"* "p2"* ...: for each part the phrase of
\* its tokens, the last one a prefix
fts5_phrases(parts) ==
    IF parts = <<>> THEN <<>>
    ELSE <<Tokenize(Head(parts))>> \o fts5_phrases(Tail(parts))

\* FTS5: the phrase's tokens stand in a row in the column, the last of them
\* as the prefix of a token.
phrase_matches(phrase, tokens) ==
    \E i \in 1..Len(tokens) :
        /\ i + Len(phrase) - 1 <= Len(tokens)
        /\ \A j \in 1..Len(phrase) :
              IF j < Len(phrase) THEN tokens[i + j - 1] = phrase[j]
              ELSE IsPrefix(phrase[j], tokens[i + j - 1])

\* word_index MATCH '{column} : "p1"* "p2"* ...' on one row.  The column
\* filter binds to the first phrase only; the other phrases match in either
\* indexed column.  A phrase without tokens is dropped, and a query left
\* with no phrase matches nothing.
match_word_index(w, column, phrases) ==
    LET in_column == w.tokens[column]
        anywhere(phrase) == \/ phrase_matches(phrase, w.tokens.title)
                            \/ phrase_matches(phrase, w.tokens.text)
    IN  /\ \E i \in 1..Len(phrases) : phrases[i] # <<>>
        /\ \A i \in 1..Len(phrases) :
              \/ phrases[i] = <<>>
              \/ IF i = 1 THEN phrase_matches(phrases[i], in_column)
                 ELSE anywhere(phrases[i])

RECURSIVE rows_in_order(_)
\* FTS5 yields the matching rows by rowid
rows_in_order(rows) ==
    IF rows = {} THEN <<>>
    ELSE LET w == CHOOSE x \in rows : \A y \in rows : x.rowid <= y.rowid
         IN  <<w>> \o rows_in_order(rows \ {w})

RECURSIVE join_documents(_, _)
\* FROM documents JOIN word_index ON word_index.document_id = documents.id
join_documents(docs, ws) ==
    IF ws = <<>> THEN <<>>
    ELSE LET joined == { r \in docs : r.id = Head(ws).document_id }
         IN  (IF joined = {} THEN <<>> ELSE <<build_entry(CHOOSE r \in joined : TRUE)>>)
             \o join_documents(docs, Tail(ws))

\* match_word_index.query_map([&match_...], build_entry) on the tables of
\* a store
query_map(store, column, phrases) ==
    join_documents(store.documents,
                   rows_in_order({ w \in store.word_index :
                                     match_word_index(w, column, phrases) }))

contains(entries, e) == \E i \in 1..Len(entries) : entries[i] = e

\* A merge that appends every text match
append_results(title_results, text_results) == title_results \o text_results

RECURSIVE merge_results(_, _)
\* for result in text_results { if !title_results.contains(&result) { push } }
merge_results(title_results, text_results) ==
    IF text_results = <<>> THEN title_results
    ELSE merge_results(IF contains(title_results, Head(text_results)) THEN title_results
                       ELSE Append(title_results, Head(text_results)),
                       Tail(text_results))

\* A search of the title column alone
search_titles(store, query) ==
    query_map(store, "title", fts5_phrases(query_parts(query)))

\* Index::search on the tables of a store
search_in(store, query) ==
    LET phrases == fts5_phrases(query_parts(query))
    IN  merge_results(query_map(store, "title", phrases),
                      query_map(store, "text", phrases))

\* The tables behind self.connection
connection == [documents |-> documents, word_index |-> word_index]

\* Index::search
search(query) == search_in(connection, query)

\* The queries that are run
Queries ==
    { <<"a", "b", "s">>, <<"A", "B">>, <<"a", "b", "b">>, <<"b", "a", "b">>,
      <<"s", "a">>, <<"s", "b">>, <<"#", "s", "b">>, <<".", "b", "s">>, <<"1">>,
      <<"b", "a", " ", "#", "s">>, <<"#", "s", " ", "b", "a">>,
      <<"b", "a", "b", " ", "s", "a">>, <<"2", " ">>, <<" ", "2">>, <<>>,
      <<"s", "a", "\t", "a", "b", "s">> }

-----------------------------------------------------------------------------
(* Operations *)

\* Index::open_from_file on a new store, nothing written yet
Init ==
    /\ fs = << >>
    /\ now = 0
    /\ documents = {}
    /\ word_index = {}
    /\ application = Some(SCHEMA_VERSION)
    /\ rowid = 1
    /\ last = "open"
    /\ paths = [u \in Uris |-> "none"]
    /\ before = [documents |-> {}, word_index |-> {}, last |-> "open", seen |-> {}]
    /\ parsed = document(Empty)
    /\ ensured = <<>>

\* A file is written (TestDir::write): new content, stamped with the clock,
\* or left without a modification time, or left unreadable.
Write(u, content, readable, stamped) ==
    /\ now < MaxClock
    /\ fs' = [x \in DOMAIN fs \cup {u} |->
                IF x = u
                THEN [content |-> content, readable |-> readable,
                      modified |-> IF stamped THEN Some(now) ELSE None,
                      created |-> IF u \in DOMAIN fs THEN fs[u].created ELSE Some(now)]
                ELSE fs[x]]
    /\ fs' # fs
    /\ last' = "changed"
    /\ paths' = [x \in Uris |-> "none"]
    /\ before' = [documents |-> documents, word_index |-> word_index,
                  last |-> "changed", seen |-> documents]
    /\ UNCHANGED <<now, documents, word_index, application, rowid, parsed, ensured>>

\* A file is removed (TestDir::delete)
Delete(u) ==
    /\ now < MaxClock
    /\ u \in DOMAIN fs
    /\ fs' = [x \in DOMAIN fs \ {u} |-> fs[x]]
    /\ last' = "changed"
    /\ paths' = [x \in Uris |-> "none"]
    /\ before' = [documents |-> documents, word_index |-> word_index,
                  last |-> "changed", seen |-> documents]
    /\ UNCHANGED <<now, documents, word_index, application, rowid, parsed, ensured>>

\* The uris the collections yield
enumerated == (UNION { collections[i] : i \in 1..Len(collections) }) \cap DOMAIN fs

\* The branch of refresh_ a uri takes: its row is deleted as unseen, or
\* inserted, or touched by update_unmodified_document, or upserted
path_taken(u) ==
    LET rows == { r \in documents : r.uri = u }
    IN  IF u \notin enumerated THEN (IF rows = {} THEN "none" ELSE "removed")
        ELSE IF rows = {} THEN "inserted"
        ELSE IF IsSome(fs[u].modified)
                /\ \E r \in rows : r.modified >= Unwrap(fs[u].modified)
             THEN "unmodified"
        ELSE "updated"

\* tx.commit() after refresh_ has returned Ok; on its error, and on a panic,
\* the Transaction is dropped, which rolls back.  seen is the documents table
\* as the loops left it.
commit(done, seen) ==
    /\ documents' = IF done.failed = "no" THEN done.documents ELSE documents
    /\ word_index' = IF done.failed = "no" THEN done.word_index ELSE word_index
    /\ rowid' = done.rowid
    /\ last' = IF done.failed = "no" THEN "committed" ELSE done.failed
    /\ paths' = [u \in Uris |-> IF done.failed = "no" THEN path_taken(u) ELSE "none"]
    /\ before' = [documents |-> documents, word_index |-> word_index,
                  last |-> last, seen |-> seen]

\* Index::refresh: refresh_ in a transaction that commits, or that is
\* rolled back when refresh_ fails; last_insert_rowid() is the connection's
\* and is not rolled back.
Refresh ==
    /\ now < MaxClock
    /\ \E uris \in Enumerations(collections) :
          commit(refresh_(uris, now), refresh_loop(transaction, uris, now).documents)
    /\ now' = now + 1
    /\ UNCHANGED <<fs, application, parsed, ensured>>

\* A schema change that stores the version and keeps the rows
keep_schema ==
    /\ documents' = documents
    /\ word_index' = word_index
    /\ application' = Some(SCHEMA_VERSION)
    /\ rowid' = 1

\* Index::create_schema: the tables dropped and created, the version stored
create_schema ==
    /\ documents' = {}
    /\ word_index' = {}
    /\ application' = Some(SCHEMA_VERSION)
    /\ rowid' = 1

\* Index::open on the store as it is, in a new process: a new connection
\* and ensure_schema_version.
Open ==
    /\ IF schema_version < SCHEMA_VERSION THEN create_schema
       ELSE /\ rowid' = 0
            /\ UNCHANGED <<documents, word_index, application>>
    /\ UNCHANGED <<fs, now, last, paths, before, parsed, ensured>>

\* Index::search reads the tables and changes nothing
Search(query) == UNCHANGED vars

Next ==
    \/ \E u \in Uris, content \in Contents : Write(u, content, TRUE, TRUE)
    \/ Write("u2", Plain, FALSE, TRUE)
    \/ Write("u2", Plain, TRUE, FALSE)
    \/ \E u \in Uris : Delete(u)
    \/ Refresh
    \/ Open
    \/ \E query \in Queries : Search(query)

Spec == Init /\ [][Next]_vars

\* The versions a store file can carry: those of earlier and later builds
MaxVersion == 4

\* Rows that an earlier run left in the store
StoredDocuments ==
    { [id |-> i, uri |-> IF i = 1 THEN "u1" ELSE "u2", title |-> <<"1">>, type |-> None,
       markdown |-> <<>>, created |-> 0, modified |-> 0, last_seen_at |-> 0] : i \in 1..2 }

StoredWords ==
    { [rowid |-> i, document_id |-> i] @@ fts5_row(<<"1">>, <<"1", " ", " ">>) : i \in 1..2 }

\* Connection::open on a store file as some run of some build left it, or
\* on no file: the tables, and the version marker if there is one
Stored ==
    /\ fs = << >>
    /\ now = 0
    /\ documents \in SUBSET StoredDocuments
    /\ word_index \in SUBSET StoredWords
    /\ application \in {None} \cup { Some(v) : v \in 0..MaxVersion }
    /\ rowid = 0
    /\ last = "open"
    /\ paths = [u \in Uris |-> "none"]
    /\ before = [documents |-> {}, word_index |-> {}, last |-> "open", seen |-> {}]
    /\ parsed = document(Empty)
    /\ ensured = <<>>

\* The calls of ensure_schema_version that are followed
MaxCalls == 2

\* Index::ensure_schema_version on the connection
EnsureSchemaVersion ==
    /\ Len(ensured) < MaxCalls
    /\ IF schema_version < SCHEMA_VERSION
       THEN /\ create_schema
            /\ ensured' = Append(ensured, [found |-> [documents |-> documents,
                                                      word_index |-> word_index,
                                                      application |-> application],
                                           returned |-> TRUE])
       ELSE /\ UNCHANGED <<documents, word_index, application, rowid>>
            /\ ensured' = Append(ensured, [found |-> [documents |-> documents,
                                                      word_index |-> word_index,
                                                      application |-> application],
                                           returned |-> FALSE])
    /\ UNCHANGED <<fs, now, last, paths, before, parsed>>

\* A store is opened and its schema ensured, time and again
Schema == Stored /\ [][EnsureSchemaVersion]_vars

\* Index::open_from_file, and a Document made of some source outside the
\* index
Documented ==
    /\ fs = << >>
    /\ now = 0
    /\ documents = {}
    /\ word_index = {}
    /\ application = Some(SCHEMA_VERSION)
    /\ rowid = 1
    /\ last = "open"
    /\ paths = [u \in Uris |-> "none"]
    /\ before = [documents |-> {}, word_index |-> {}, last |-> "open", seen |-> {}]
    /\ parsed \in { document(source) : source \in Sources }
    /\ ensured = <<>>

\* The first access to the document (root() or front_matter() on empty
\* cells) runs Document::init, once; a panic leaves the cells empty
Access ==
    /\ parsed.root = None
    /\ parsed.failed = "no"
    /\ LET done == init(parsed.source)
       IN  parsed' = IF done.failed # "no" THEN [parsed EXCEPT !.failed = done.failed]
                     ELSE [parsed EXCEPT !.root = Some(done.root),
                                         !.content = Some(done.content)]
    /\ UNCHANGED <<fs, now, documents, word_index, application, rowid, last, paths, before,
                   ensured>>

\* A document is made and read
Normalization == Documented /\ [][Access]_vars

\* NodeValue::FrontMatter: the block that comrak finds between the "---"
\* delimiters (front_matter_delimiter), a child of the document node
FrontMatterNode(yaml) == [value |-> "FrontMatter", yaml |-> yaml]

\* comrak's tree of a source [title, header, tree]: the front matter block,
\* when the source has one, before what follows it
comrak_tree(source) ==
    (IF IsSome(source.header) THEN << FrontMatterNode(Unwrap(source.header)) >>
     ELSE <<>>) \o source.tree

RECURSIVE format_commonmark(_)
\* format_commonmark over the nodes of a tree: a front matter block is
\* written out as it stands (here its delimiter), a link as [text](url)
format_commonmark(nodes) ==
    IF nodes = <<>> THEN <<>>
    ELSE (CASE Head(nodes).value = "FrontMatter" -> <<"-", "-", "-", "\n">>
            [] Head(nodes).value = "Text" -> Head(nodes).literal
            [] Head(nodes).value = "SoftBreak" -> <<"\n">>
            [] Head(nodes).value = "Link" ->
                   <<"[">> \o format_commonmark(Head(nodes).children) \o <<"]", "(">>
                       \o Head(nodes).url \o <<")">>)
         \o format_commonmark(Tail(nodes))

\* Document { source, dialect, ..Default::default() }: the two OnceCells
\* empty.  parses and extractions count the runs of the two initializers,
\* calls the accessor calls; first and returned are the first accessor
\* called and what the last one returned.
new_document(source) ==
    [source |-> source, failed |-> "no", root |-> None, front_matter |-> None,
     parses |-> 0, extractions |-> 0, calls |-> 0, first |-> "none", returned |-> None]

\* OnceCell::get_or_init stores what the initializer returns; a panic of the
\* initializer leaves the cell empty
set_root(doc, tree) ==
    IF tree.failed # "no" THEN [doc EXCEPT !.failed = tree.failed, !.parses = @ + 1]
    ELSE [doc EXCEPT !.root = Some(tree.nodes), !.parses = @ + 1]

set_front_matter(doc, read) ==
    IF read.failed # "no" THEN [doc EXCEPT !.failed = read.failed]
    ELSE [doc EXCEPT !.front_matter = Some(read.front_matter)]

\* self.root.get_or_init(|| Node { node: self.parse() })
root_get_or_init(doc) ==
    IF IsSome(doc.root) THEN doc
    ELSE set_root(doc, parse(comrak_tree(doc.source)))

\* children().find_map: the position of the first front matter block among
\* the children of the root, 0 when there is none
front_matter_child(nodes) ==
    LET found == { i \in 1..Len(nodes) : nodes[i].value = "FrontMatter" }
    IN  IF found = {} THEN 0 ELSE CHOOSE i \in found : \A j \in found : i <= j

\* child.detach()
detach(nodes, i) == SubSeq(nodes, 1, i - 1) \o SubSeq(nodes, i + 1, Len(nodes))

\* The initializer of the front_matter cell over the root as it is: the
\* block is detached, then read; FrontMatter::from panics on a block it
\* cannot read, after the detach
extract_front_matter(doc, nodes, i) ==
    IF i = 0
    THEN [doc EXCEPT !.front_matter = Some(None), !.extractions = @ + 1]
    ELSE set_front_matter([doc EXCEPT !.root = Some(detach(nodes, i)),
                                      !.extractions = @ + 1],
                          FrontMatter(nodes[i].yaml))

\* self.front_matter.get_or_init(|| self.root().node.children().find_map(..))
front_matter_get_or_init(doc) ==
    IF IsSome(doc.front_matter) THEN doc
    ELSE extract_front_matter(doc, Unwrap(doc.root),
                              front_matter_child(Unwrap(doc.root)))

\* The second statement of Document::init, reached when the first did not
\* panic
init_front_matter(rooted) ==
    IF rooted.failed # "no" THEN rooted ELSE front_matter_get_or_init(rooted)

\* Document::init: the two cells, in this order
init_once(doc) == init_front_matter(root_get_or_init(doc))

\* A root() that fills its own cell and leaves the front matter where it is
root_parse_only(doc) == IF ~IsSome(doc.root) THEN root_get_or_init(doc) ELSE doc

\* Document::root: init when the root cell is empty
root_cell(doc) == IF ~IsSome(doc.root) THEN init_once(doc) ELSE doc

\* Document::front_matter: init when the front_matter cell is empty
front_matter_cell(doc) == IF ~IsSome(doc.front_matter) THEN init_once(doc) ELSE doc

\* The accessors of a Document that read its cells
Accessors ==
    {"title", "doc_type", "text", "links", "markdown", "root", "front_matter", "init"}

\* doc_type after front_matter(): type_from_link reads links(), so root(),
\* when there is no front matter
doc_type_cells(fm) ==
    IF fm.failed # "no" \/ IsSome(Unwrap(fm.front_matter)) THEN fm ELSE root_cell(fm)

\* The cells as the call of an accessor leaves them
reached(doc, accessor) ==
    CASE accessor \in {"title", "front_matter"} -> front_matter_cell(doc)
      [] accessor = "doc_type" -> doc_type_cells(front_matter_cell(doc))
      [] accessor = "init" -> init_once(doc)
      [] OTHER -> root_cell(doc)

\* The Document as title() and doc_type() read it from its cells
cells_read(doc) ==
    [uri |-> "data",
     source |-> [title |-> doc.source.title,
                 content |-> [front_matter |-> Unwrap(doc.front_matter),
                              text |-> node_text(Unwrap(doc.root)),
                              links |-> node_links(Unwrap(doc.root))],
                 readable |-> TRUE, modified |-> None, created |-> None]]

\* What the accessor returns, read from the cells it has filled
value_of(doc, accessor) ==
    CASE accessor = "title" -> title(cells_read(doc))
      [] accessor = "doc_type" -> doc_type(cells_read(doc))
      [] accessor = "text" -> node_text(Unwrap(doc.root))
      [] accessor = "links" -> node_links(Unwrap(doc.root))
      [] accessor = "markdown" -> format_commonmark(Unwrap(doc.root))
      [] accessor = "root" -> Unwrap(doc.root)
      [] accessor = "front_matter" -> Unwrap(doc.front_matter)
      [] accessor = "init" -> None

\* The call recorded: a panic returns nothing
called(done, accessor) ==
    [done EXCEPT !.calls = @ + 1,
                 !.first = IF @ = "none" THEN accessor ELSE @,
                 !.returned = IF done.failed # "no" THEN None
                              ELSE Some([accessor |-> accessor,
                                         value |-> value_of(done, accessor)])]

\* The number of accessor calls on one Document
MaxAccesses == 3

\* The sources of the documents whose accessors are called: a string or a
\* path, without front matter, with a front matter block that declares
\* title, type and tags, or with one that serde_yaml cannot read
Memoized ==
    [title : {None, Some(<<"1">>)},
     header : {None,
               Some([title |-> Str(<<"T">>), type |-> Str(<<"s">>),
                     tags |-> Flow(<< <<"a">>, <<"b">> >>)]),
               Some([title |-> Absent, type |-> Absent, tags |-> Absent]),
               Some([title |-> Flow(<< <<"T">> >>), type |-> Absent, tags |-> Absent])},
     tree : Trees]

\* Obsidian::document(source) for one of the sources
Made ==
    /\ fs = << >>
    /\ now = 0
    /\ documents = {}
    /\ word_index = {}
    /\ application = Some(SCHEMA_VERSION)
    /\ rowid = 1
    /\ last = "open"
    /\ paths = [u \in Uris |-> "none"]
    /\ before = [documents |-> {}, word_index |-> {}, last |-> "open", seen |-> {}]
    /\ parsed \in { new_document(source) : source \in Memoized }
    /\ ensured = <<>>

\* One of the accessors is called on the document; a panic ends its use
Call(accessor) ==
    /\ parsed.failed = "no"
    /\ parsed.calls < MaxAccesses
    /\ parsed' = called(reached(parsed, accessor), accessor)
    /\ UNCHANGED <<fs, now, documents, word_index, application, rowid, last, paths, before,
                   ensured>>

\* A document is made and its accessors are called, in any order
Memoization == Made /\ [][\E accessor \in Accessors : Call(accessor)]_vars

-----------------------------------------------------------------------------
(* Properties *)

\* The urls of a result list, in its order
uris_of(entries) == [i \in 1..Len(entries) |-> entries[i].url]

\* The set of documents a result list names
returned(query) ==
    LET entries == search(query) IN { entries[i].url : i \in 1..Len(entries) }

\* The word_index row that refresh_ builds from the file at u as it is now
projection(u) == fts5_row(Unwrap(title(Document(u))), word_text(Document(u)))

\* The query matches the file at u as it is now, in its title or in its text
would_match(query, u) ==
    \/ match_word_index(projection(u), "title", fts5_phrases(query_parts(query)))
    \/ match_word_index(projection(u), "text", fts5_phrases(query_parts(query)))

\* The last refresh committed, and u was the one document that had changed:
\* it was indexed and its file was newer than its row, and every other
\* file was as it had been indexed.
OneEdited(u) ==
    /\ last = "committed"
    /\ paths[u] = "updated"
    /\ \E r \in before.documents : r.uri = u /\ r.markdown # markdown(Document(u))
    /\ \A v \in Uris \ {u} : paths[v] \in {"none", "unmodified"}

\* C1: when one indexed document is edited with a later modification time
\* and the refresh commits, size() is unchanged, a query that matched only
\* the old content returns nothing, and a query that matches the new content
\* (and no other indexed document) returns exactly that document.
C1_UpdateSemantics ==
    \A u \in Uris : OneEdited(u) =>
        /\ size = Cardinality(before.documents)
        /\ \A q \in Queries :
              /\ (uris_of(search_in(before, q)) = <<u>> /\ ~would_match(q, u))
                    => search(q) = <<>>
              /\ (would_match(q, u)
                  /\ \A v \in Uris \ {u} :
                        paths[v] = "unmodified" => ~would_match(q, v))
                    => uris_of(search(q)) = <<u>>

\* The documents the last committed refresh took down the given path
taken(path) == { u \in Uris : paths[u] = path }

\* C2: after a committed refresh, a document that had a row and is no longer
\* enumerated has no row in documents, no row in word_index under its id,
\* and is in no search result; size() is what it was, less the documents
\* removed, plus the documents inserted.
C2_RemovalConvergence ==
    last = "committed" =>
        /\ \A u \in taken("removed") :
              /\ ~\E r \in documents : r.uri = u
              /\ \A r \in before.documents :
                    r.uri = u => ~\E w \in word_index : w.document_id = r.id
              /\ \A q \in Queries : u \notin returned(q)
        /\ size = Cardinality(before.documents) - Cardinality(taken("removed"))
                      + Cardinality(taken("inserted"))

\* A committed refresh has removed one document and kept another
C2_Witness ==
    /\ last = "committed"
    /\ taken("removed") # {}
    /\ documents # {}
    /\ word_index # {}

\* C3: two refreshes commit one after the other with no file changed in
\* between; size() and the result of every query are the same after the
\* second as after the first.
C3_Idempotence ==
    (last = "committed" /\ before.last = "committed") =>
        /\ size = Cardinality(before.documents)
        /\ \A q \in Queries : search(q) = search_in(before, q)

\* A document the last refresh had to read: one without a row, or with a row
\* older than the file
was_read(u) == paths[u] \in {"inserted", "updated"}

\* C4: a refresh that fails leaves documents and word_index as it found
\* them, and a refresh commits only if every document it had to read could
\* be read and stored: none is passed over.
C4_AllOrNothing ==
    /\ last \in {"error", "panic"} =>
          /\ documents = before.documents
          /\ word_index = before.word_index
    /\ last = "committed" =>
          \A u \in enumerated :
              was_read(u) => fs[u].readable /\ IsSome(fs[u].modified)

\* A refresh failed on an unreadable file while the store held a document
\* and another file was waiting to be indexed
C4_Witness ==
    /\ last = "panic"
    /\ size = 1
    /\ DOMAIN fs = Uris
    /\ before.last = "changed"

\* C5: no two rows of documents have the same uri, in the store and inside
\* the transaction of a refresh once its loops have run.
C5_UriUnique ==
    \A table \in {documents, before.seen} :
        \A r1, r2 \in table : r1.uri = r2.uri => r1 = r2

\* A committed refresh has upserted the row of an edited document while
\* another uri was enumerated twice
C5_Witness ==
    /\ last = "committed"
    /\ paths["u1"] = "updated"
    /\ paths["u2"] \in {"inserted", "updated"}
    /\ size = 2

\* C6: every word_index row's document_id is the id of a row of documents,
\* after every committed refresh and in every other state of the store.
C6_NoOrphans == \A w \in word_index : \E r \in documents : r.id = w.document_id

\* A committed refresh has removed one document and upserted another
C6_Witness ==
    /\ last = "committed"
    /\ taken("removed") # {}
    /\ taken("updated") # {}
    /\ word_index # {}

\* The timestamp of the last refresh: every refresh takes one tick
cycle_ts == now - 1

tags_of(doc) ==
    IF IsSome(front_matter(doc)) /\ IsSome(Unwrap(front_matter(doc)).tags)
    THEN Unwrap(Unwrap(front_matter(doc)).tags)
    ELSE <<>>

\* The text holds the bare word x
bare_word_in(x, str) == phrase_matches(Tokenize(x), Tokenize(str))

\* The files that the last committed refresh indexed
indexed == IF last = "committed" THEN { u \in enumerated : was_read(u) } ELSE {}

\* C8: an indexed document that declares tag x, without the bare word x in
\* its title or body, is returned for "#x" and not for "x"; one whose body
\* holds the bare word x, and which does not declare tag x, is returned for
\* "x" and not for "#x"; and every token of the tags in the searchable text
\* starts with "#".
C8_TagQualification ==
    \A u \in indexed :
        LET doc == Document(u)
            tags == tags_of(doc)
            words == SplitOn(text(doc), " ", <<>>)
            tagged(x) == \E i \in 1..Len(tags) : tags[i] = x
        IN  /\ \A i \in 1..Len(tags) :
                  (/\ ~bare_word_in(tags[i], Unwrap(title(doc)))
                   /\ ~bare_word_in(tags[i], text(doc)))
                  => /\ u \in returned(<<"#">> \o tags[i])
                     /\ u \notin returned(tags[i])
            /\ \A i \in 1..Len(words) :
                  (words[i] # <<>> /\ ~tagged(words[i]))
                  => /\ u \in returned(words[i])
                     /\ u \notin returned(<<"#">> \o words[i])
            /\ \A i \in 1..Len(Tokenize(tags_text(doc))) :
                  Head(Tokenize(tags_text(doc))[i]) = "#"

\* The words of a text as unicode61 finds them, without stemming
words_of(str) == { RawTokens(str, <<>>)[i] : i \in 1..Len(RawTokens(str, <<>>)) }

\* The term is a case-insensitive prefix of a word of the text
prefix_of_word(term, str) ==
    \E word \in words_of(str) : IsPrefix([i \in 1..Len(term) |-> Fold(term[i])], word)

\* The word_index rows that reference a row of documents
word_rows(r) == { w \in word_index : w.document_id = r.id }

\* The rows of documents whose word_index row has, for every one of the
\* terms, a word that the term is a prefix of
prefixed_by(terms) ==
    { r \in documents :
        \E w \in word_rows(r) :
            \A i \in 1..Len(terms) : prefix_of_word(terms[i], w.text) }

phrases(q) ==
    LET all == fts5_phrases(query_parts(q))
    IN  { all[i] : i \in 1..Len(all) } \ { <<>> }

\* The rows of documents whose word_index row holds every one of the
\* phrases in its text, if there is a phrase at all
holding(wanted) ==
    { r \in documents :
        /\ wanted # {}
        /\ \E w \in word_rows(r) :
              \A phrase \in wanted : phrase_matches(phrase, w.tokens.text) }

\* Each query with its phrases and the documents it returns
answers == { [query |-> q, phrases |-> phrases(q), returned |-> returned(q)] : q \in Queries }

C10_MergeOrder ==
    \A q \in Queries :
        LET title_results == query_map(connection, "title", fts5_phrases(query_parts(q)))
            text_results == query_map(connection, "text", fts5_phrases(query_parts(q)))
            text_only(e) == ~contains(title_results, e)
            entries == search(q)
        IN  /\ entries = title_results \o SelectSeq(text_results, text_only)
            /\ \A i, j \in 1..Len(entries) : entries[i].url = entries[j].url => i = j

\* A query has a title match, a match in both columns and a text-only match
C10_Witness ==
    \E q \in Queries :
        LET title_results == query_map(connection, "title", fts5_phrases(query_parts(q)))
            text_results == query_map(connection, "text", fts5_phrases(query_parts(q)))
        IN  /\ title_results # <<>>
            /\ contains(text_results, title_results[1])
            /\ Len(search(q)) > Len(title_results)
            /\ text_results[1] # title_results[1]

\* The document has been initialised
initialised == IsSome(parsed.content)

\* The front matter block of the source declares a title
header_title(source) ==
    IF IsSome(source.header) /\ Unwrap(source.header).title.kind = "str"
    THEN Some(Unwrap(source.header).title.value)
    ELSE None

\* C11: title() is the title of the front matter when it declares one,
\* whether or not the source has a title; else the title of the source when
\* it has one; else absent.  The body of the document plays no part.
C11_TitleResolution ==
    initialised =>
        title(accessed(parsed)) =
            IF IsSome(header_title(parsed.source)) THEN header_title(parsed.source)
            ELSE IF IsSome(parsed.source.title) THEN parsed.source.title
            ELSE None

\* A document over a path, with a title in its front matter and text in its
\* body, has been read, and its title is that of the front matter
C11_Witness ==
    /\ initialised
    /\ IsSome(parsed.source.title)
    /\ IsSome(header_title(parsed.source))
    /\ text(accessed(parsed)) # <<>>
    /\ title(accessed(parsed)) = header_title(parsed.source)
    /\ title(accessed(parsed)) # parsed.source.title

\* The front matter block of the source declares a type
header_type(source) ==
    IF IsSome(source.header) /\ Unwrap(source.header).type.kind = "str"
    THEN Some(Unwrap(source.header).type.value)
    ELSE None

\* C12: doc_type() is the type of the front matter when it declares one;
\* without front matter, and with front matter that declares no type, it is
\* the value of the first link whose meta key is "type"; else absent.
C12_TypeResolution ==
    initialised =>
        doc_type(accessed(parsed)) =
            IF IsSome(header_type(parsed.source)) THEN header_type(parsed.source)
            ELSE type_from_link(accessed(parsed))

\* The tags node of the front matter block, and what tags() makes of it
tags_node == Unwrap(parsed.source.header).tags
tags_read == Unwrap(front_matter(accessed(parsed))).tags

\* Tags that each form can declare: not empty, and without a separator
proper(items) ==
    \A i \in 1..Len(items) :
        items[i] # <<>> /\ \A j \in 1..Len(items[i]) : items[i][j] \notin {",", " "}

\* C13: tags declared as one string (split at commas and spaces, repeated
\* separators collapsed, empty pieces dropped), as an inline list or as an
\* indented list come out as the same list, in the order declared, and no
\* string in that list is empty.
C13_TagForms ==
    (initialised /\ IsSome(parsed.source.header)) =>
        /\ (tags_node.kind \in {"flow", "block"} /\ proper(tags_node.items)) =>
              /\ tags_read = Some(tags_node.items)
              /\ tags_read = maybe_vec_of_strings(Flow(tags_node.items))
              /\ tags_read = maybe_vec_of_strings(Block(tags_node.items))
              /\ tags_read = maybe_vec_of_strings(Str(Join(tags_node.items, <<",", " ">>)))
              /\ tags_read = maybe_vec_of_strings(Str(Join(tags_node.items, <<" ", ",", ",">>)))
        /\ tags_node.kind = "str" =>
              /\ IsSome(tags_read)
              /\ proper(Unwrap(tags_read))
              /\ tags_read = maybe_vec_of_strings(Flow(Unwrap(tags_read)))
              /\ tags_read = maybe_vec_of_strings(Block(Unwrap(tags_read)))
        /\ IsSome(tags_read) => \A i \in 1..Len(Unwrap(tags_read)) : Unwrap(tags_read)[i] # <<>>

\* The tags field declares no tag: it is missing, has no value, is a string
\* of separators only (the empty string too), or is an empty sequence
empty_tags(node) ==
    \/ node.kind \in {"absent", "null"}
    \/ node.kind = "str" /\ \A i \in 1..Len(node.value) : node.value[i] \in {",", " "}
    \/ node.kind \in {"flow", "block"} /\ node.items = <<>>

\* C14: tags() is never an empty list; a tags field that declares no tag
\* comes out as absent.
C14_TagsNeverEmpty ==
    (initialised /\ IsSome(parsed.source.header)) =>
        /\ tags_read # Some(<<>>)
        /\ empty_tags(tags_node) => tags_read = None

\* The node at position i of a tree is a wiki-link: an unresolved reference
\* between a "[" and a "]"
is_wiki_link(tree, i) ==
    /\ tree[i].value = "Link" /\ tree[i].url = MARKER
    /\ i > 1 /\ tree[i - 1].value = "Text" /\ tree[i - 1].literal # <<>>
    /\ tree[i - 1].literal[Len(tree[i - 1].literal)] = "["
    /\ i < Len(tree) /\ tree[i + 1].value = "Text" /\ tree[i + 1].literal # <<>>
    /\ Head(tree[i + 1].literal) = "]"

\* The node at position i of a tree is an ordinary link or an autolink
is_ordinary_link(tree, i) == tree[i].value = "Link" /\ tree[i].url # MARKER

\* The target and the alias between the brackets of a wiki-link, without
\* the space around them; the alias is the target when none is given
target_of(node) == trim(splitn2(node_text(<<node>>), "|")[1])
alias_of(node) ==
    IF Len(splitn2(node_text(<<node>>), "|")) > 1
    THEN trim(splitn2(node_text(<<node>>), "|")[2])
    ELSE target_of(node)

\* C15: Obsidian::parse makes an ordinary link of every wiki-link: the link
\* of [[target]] shows target and that of [[target|alias]] shows alias, and
\* the url of both is obsidian://open?path=target; the ordinary links and
\* the autolinks of the source are left as they are.
C15_WikiLinks ==
    /\ (initialised \/ parsed.failed # "no") => parse(parsed.source.tree).failed = "no"
    /\ initialised =>
          LET tree == parsed.source.tree
              root == Unwrap(parsed.root)
          IN  \A i \in 1..Len(tree) :
                  /\ is_wiki_link(tree, i) =>
                        /\ root[i].value = "Link"
                        /\ root[i].url = OpenPath \o target_of(tree[i])
                        /\ node_text(<<root[i]>>) = alias_of(tree[i])
                  /\ is_ordinary_link(tree, i) => root[i] = tree[i]

\* The version a store carries: that of its marker, 0 without one
version_of(store) == IF IsSome(store.application) THEN Unwrap(store.application) ELSE 0

\* The tables and the marker behind the connection
store_now == [documents |-> documents, word_index |-> word_index, application |-> application]

\* C16: ensure_schema_version returns true exactly when the version it
\* found was lower than SCHEMA_VERSION (0 without a marker); it has then
\* dropped every row of documents and word_index and stored SCHEMA_VERSION.
\* Otherwise it has changed nothing.  A second call returns false.
C16_EnsureSchemaVersion ==
    /\ ensured # <<>> =>
          LET call == ensured[Len(ensured)]
          IN  /\ call.returned <=> version_of(call.found) < SCHEMA_VERSION
              /\ call.returned =>
                    /\ documents = {}
                    /\ word_index = {}
                    /\ application = Some(SCHEMA_VERSION)
              /\ ~call.returned => store_now = call.found
    /\ Len(ensured) > 1 => ~ensured[2].returned

\* A store of an earlier version, with rows, was recreated by the first
\* call, and a second call has returned false
C16_Witness ==
    /\ Len(ensured) = 2
    /\ ensured[1].returned
    /\ ensured[1].found.documents # {}
    /\ ensured[1].found.word_index # {}
    /\ IsSome(ensured[1].found.application)
    /\ ~ensured[2].returned
    /\ documents = {}

\* The rows of a documents table with the given uri
rows_of(table, u) == { r \in table : r.uri = u }

\* C17: a committed refresh that took the upsert path for a document whose
\* uri had a row has left that row with its id, with the title, type,
\* markdown, created and modified that the document reported, and with
\* last_seen_at = cycle_ts.
C17_UpsertSetsAllFields ==
    last = "committed" =>
        \A u \in taken("updated") :
            \A old \in rows_of(before.documents, u) :
                \E r \in rows_of(documents, u) :
                    /\ r.id = old.id
                    /\ r.title = Unwrap(title(Document(u)))
                    /\ r.type = doc_type(Document(u))
                    /\ r.markdown = markdown(Document(u))
                    /\ r.created = Unwrap(created(Document(u)))
                    /\ r.modified = Unwrap(modified(Document(u)))
                    /\ r.last_seen_at = cycle_ts

\* The documents the last refresh took down the upsert path
upserted == taken("inserted") \cup taken("updated")

\* The ids of the rows that the given documents have in a documents table
ids_of(table, uris) == { r.id : r \in { x \in table : x.uri \in uris } }

\* C18: after a committed refresh every document that took the upsert path,
\* newly inserted or updated in place, has a word_index row built from it
\* under the id of the documents row with its uri; every word_index row the
\* refresh deleted carried the id of a document that was upserted or removed,
\* and every row it inserted carries the id of an upserted document, so the
\* word_index row of no other document was deleted or replaced.
C18_WordIndexIdentity ==
    last = "committed" =>
        /\ \A u \in upserted :
              \A r \in rows_of(documents, u) :
                  \E w \in word_rows(r) :
                      w = [rowid |-> w.rowid, document_id |-> r.id] @@ projection(u)
        /\ \A w \in before.word_index \ word_index :
              w.document_id \in ids_of(before.documents, upserted \cup taken("removed"))
        /\ \A w \in word_index \ before.word_index :
              w.document_id \in ids_of(documents, upserted)

\* The query that is the title of the file at u as it is now
own_title(u) == Unwrap(title(Document(u)))

\* C19: after a committed refresh every enumerated document has exactly one
\* row in documents and exactly one word_index row under that row's id, the
\* one built from the document's current title, text and tags; a query for
\* its own title returns it.
C19_EveryDocumentIndexed ==
    last = "committed" =>
        \A u \in enumerated :
            /\ Cardinality(rows_of(documents, u)) = 1
            /\ \A r \in rows_of(documents, u) :
                  /\ Cardinality(word_rows(r)) = 1
                  /\ \A w \in word_rows(r) :
                        w = [rowid |-> w.rowid, document_id |-> r.id] @@ projection(u)
            /\ (own_title(u) \in Queries /\ would_match(own_title(u), u))
                  => u \in returned(own_title(u))

\* The word_index rows of a table that carry the given document id
words_under(rows, id) == { w \in rows : w.document_id = id }

\* The row of a fast-path document differs from what it was in last_seen_at
\* only, which is cycle_ts
fast_path_row(u) ==
    \A old \in rows_of(before.documents, u) :
        [old EXCEPT !.last_seen_at = cycle_ts] \in documents

\* The word_index rows of a fast-path document are what they were
fast_path_words(u) ==
    \A old \in rows_of(before.documents, u) :
        words_under(word_index, old.id) = words_under(before.word_index, old.id)

\* C20: after a committed refresh, a document that reported a modification
\* time not later than the modified of the row with its uri has that row
\* changed in last_seen_at only (to cycle_ts), and the word_index rows under
\* its id are the ones that were there before; a document without a
\* modification time is never passed by the fast path, so a refresh that
\* enumerates one does not commit.
C20_FastPathFrame ==
    last = "committed" =>
        /\ \A u \in taken("unmodified") : fast_path_row(u) /\ fast_path_words(u)
        /\ \A u \in enumerated : IsSome(modified(Document(u)))

\* C21: when a refresh commits right after a committed refresh, with no file
\* written or removed in between, no enumerated document takes the upsert
\* path, and the word_index rows under the id of each are the rows that were
\* there: none is deleted, none is inserted.
C21_UnchangedNotRetokenized ==
    (last = "committed" /\ before.last = "committed") =>
        \A u \in enumerated :
            /\ u \notin upserted
            /\ \A old \in rows_of(before.documents, u) :
                  words_under(word_index, old.id) = words_under(before.word_index, old.id)

\* What a refresh over the given enumeration leaves in the store: for each
\* row of documents, its fields other than the surrogate id, and the title
\* and text indexed under its id (the tables as they are when the refresh
\* fails)
store_after(uris) ==
    LET done == refresh_(uris, now)
        docs == IF done.failed = "no" THEN done.documents ELSE documents
        words == IF done.failed = "no" THEN done.word_index ELSE word_index
    IN  { [uri |-> r.uri, title |-> r.title, type |-> r.type, markdown |-> r.markdown,
           created |-> r.created, modified |-> r.modified,
           last_seen_at |-> r.last_seen_at,
           indexed |-> { [title |-> w.title, text |-> w.text] :
                            w \in words_under(words, r.id) }] : r \in docs }

\* C22: from the store and the files as they are, a refresh leaves the same
\* rows of documents by uri (the surrogate ids apart) and the same indexed
\* title and text for each of them, whichever order the documents are
\* enumerated in.
C22_OrderIndependence ==
    \A first \in Enumerations(collections), second \in Enumerations(collections) :
        store_after(first) = store_after(second)

\* The tree of the document without its front matter block, parsed
body_of(doc) == parse(doc.source.tree).nodes

\* What text(), links() and markdown() give over the tree of the document
\* without its front matter block
body_value(doc, accessor) ==
    CASE accessor = "text" -> node_text(body_of(doc))
      [] accessor = "links" -> node_links(body_of(doc))
      [] accessor = "markdown" -> format_commonmark(body_of(doc))

\* C23: over every sequence of calls of title, doc_type, text, links,
\* markdown, root, front_matter and init on one Document, the parse and the
\* front matter extraction have each run at most once; whenever an accessor
\* has returned, both cells are filled and the root holds no front matter
\* block, and what text(), links() and markdown() return is what the tree
\* without the front matter block gives, whichever accessor was called first.
C23_ParsedOnce ==
    /\ parsed.parses <= 1
    /\ parsed.extractions <= 1
    /\ IsSome(parsed.returned) =>
          /\ parsed.parses = 1
          /\ parsed.extractions = 1
          /\ IsSome(parsed.root)
          /\ IsSome(parsed.front_matter)
          /\ front_matter_child(Unwrap(parsed.root)) = 0
          /\ Unwrap(parsed.returned).accessor \in {"text", "links", "markdown"} =>
                Unwrap(parsed.returned).value =
                    body_value(parsed, Unwrap(parsed.returned).accessor)

\* markdown() was the first accessor called on a document with a front
\* matter block and text, and a later call of title() has returned the
\* title of the front matter
C23_Witness ==
    /\ parsed.calls > 1
    /\ parsed.first = "markdown"
    /\ IsSome(parsed.source.header)
    /\ parsed.source.tree # <<>>
    /\ IsSome(parsed.returned)
    /\ Unwrap(parsed.returned) = [accessor |-> "title", value |-> Some(<<"T">>)]

\* char::is_whitespace on the characters of the queries
Whitespace == {" ", "\t", "\n"}

RECURSIVE whitespace_runs(_, _)
\* The maximal runs of characters that are not whitespace
whitespace_runs(str, cur) ==
    IF str = <<>> THEN (IF cur = <<>> THEN <<>> ELSE <<cur>>)
    ELSE IF Head(str) \in Whitespace
         THEN (IF cur = <<>> THEN <<>> ELSE <<cur>>) \o whitespace_runs(Tail(str), <<>>)
         ELSE whitespace_runs(Tail(str), Append(cur, Head(str)))

\* The result of the two lookups and their merge for a list of terms
searched_by(parts) ==
    merge_results(query_map(connection, "title", fts5_phrases(parts)),
                  query_map(connection, "text", fts5_phrases(parts)))

\* C24: for every query, search returns what the conjunction of the query's
\* maximal runs of non-whitespace characters returns, each run one prefix
\* term: leading, trailing and repeated whitespace adds no term, and every
\* whitespace character separates terms.
C24_WhitespaceTerms ==
    \A q \in Queries : search(q) = searched_by(whitespace_runs(q, <<>>))

\* The node at position i of a tree is a link to MARKER
is_marked(tree, i) == tree[i].value = "Link" /\ tree[i].url = MARKER

\* The number of characters that the marked links next to the text at
\* position j are to take from it: the "]" at its start for a wiki-link
\* before it, the "[" at its end for a wiki-link after it
taken_from_start(tree, j) == IF j > 1 /\ is_wiki_link(tree, j - 1) THEN 1 ELSE 0
taken_from_end(tree, j) == IF j < Len(tree) /\ is_wiki_link(tree, j + 1) THEN 1 ELSE 0

\* C25: after Obsidian::parse, the text before a marked link that stood
\* between a text ending in "[" and a text starting with "]" has lost that
\* "[" and the text after it that "]"; every other text is as it was, so a
\* marked link with a bracket on one side only leaves both neighbours
\* alone; and no link of the tree has MARKER as its url.
C25_BracketsConsumed ==
    initialised =>
        LET tree == parsed.source.tree
            root == Unwrap(parsed.root)
        IN  /\ Len(root) = Len(tree)
            /\ \A j \in 1..Len(tree) :
                  /\ tree[j].value = "Text" =>
                        root[j] = Text(SubSeq(tree[j].literal,
                                              1 + taken_from_start(tree, j),
                                              Len(tree[j].literal) - taken_from_end(tree, j)))
                  /\ root[j].value = "Link" => root[j].url # MARKER
                  /\ is_marked(tree, j) =>
                        /\ root[j].value = "Link"
                        /\ SubSeq(root[j].url, 1, Len(OpenPath)) = OpenPath

\* "b [[ W | A ]] a" has been parsed: the link stands between "b " and " a"
C25_Witness ==
    /\ initialised
    /\ Len(parsed.source.tree) = 3
    /\ parsed.source.tree[1] = Text(<<"b", " ", "[">>)
    /\ Unwrap(parsed.root)[1] = Text(<<"b", " ">>)
    /\ Unwrap(parsed.root)[2].value = "Link"
    /\ Unwrap(parsed.root)[3] = Text(<<" ", "a">>)

\* "[[W] b" has been parsed: the link is rewritten and the "[" before it
\* is still there
C25_OneBracket ==
    /\ initialised
    /\ Len(parsed.source.tree) = 3
    /\ parsed.source.tree[1] = Text(<<"[">>)
    /\ parsed.source.tree[3] = Text(<<" ", "b">>)
    /\ Unwrap(parsed.root)[1] = Text(<<"[">>)

====
